---- MODULE Spec2Model ----
(***************************************************************************)
(* A model of the tsserver client of src/utils/server.js                   *)
(* (createTSServerInstance) and of its twin in src/utils/startTsserver.js: *)
(* the Content-Length frame decoder (onData / hasCompleteMessage), the     *)
(* dispatch of decoded messages (processMessage), the correlation of       *)
(* replies with pending calls (sendCommand / pendingCommands), the         *)
(* readiness sentinel (initTSServer) and the two ways of ending the child  *)
(* (exitServer / killTSServer).                                            *)
(*                                                                         *)
(* JavaScript strings are TLA+ strings; TLC treats them as sequences of    *)
(* characters, so Len, \o and SubSeq are the string operations.  A         *)
(* character is one UTF-16 code unit; but for the UTF-8 harness every      *)
(* character of the model is ASCII, one byte on the wire.                  *)
(***************************************************************************)
EXTENDS Integers, Sequences, FiniteSets, TLC

VARIABLES
    impl,             \* which file built the instance: "server" or "startTsserver"
    tsserverProcess,  \* let tsserverProcess: 0 is null, k > 0 the k-th child spawned
    seqNumber,        \* let seqNumber
    pendingCommands,  \* const pendingCommands: a Map, key -> the promise whose callbacks it holds
    buffer,           \* let buffer
    expectedLength,   \* let expectedLength
    startupTimers,    \* the setTimeout handles of initTSServer not yet fired
    callTimers,       \* the setTimeout handles of sendCommand neither fired nor cleared
    calls,            \* per promise: the resolve/reject invocations made on it, in order
    children,         \* per child process: its state as the operating system has it
    nInit,            \* number of initTSServer calls so far (each spawns one child)
    ret,              \* what the last API call did at once: its result and its write
    stream,           \* decoder harness: the byte stream the child emits
    rest,             \* decoder harness: the part of stream not yet delivered
    out,              \* decoder harness: every message handed to processMessage so far
    lsp               \* the language-server client of lsp.js or typescript-service.js

vars == <<impl, tsserverProcess, seqNumber, pendingCommands, buffer, expectedLength,
          startupTimers, callTimers, calls, children, nInit, ret, stream, rest, out, lsp>>

clientVars == <<tsserverProcess, seqNumber, pendingCommands, buffer, expectedLength>>
harnessVars == <<stream, rest, out>>

-----------------------------------------------------------------------------
(* Bounds of the model. *)

\* correlated sendCommand calls per run
MaxSeq == 2
\* initTSServer calls per run
MaxInit == 2
\* correlated sendCommand calls of a client that calls initTSServer once
MaxSessionSeq == 3
\* frames per stream of the decoder harness
MaxFrames == 2
\* characters per chunk of the decoder harness
MaxChunk == 80

-----------------------------------------------------------------------------
(* Program constants. *)

CONNECT_MESSAGE_KEY == -1

HeaderDelimiter == "\r\n\r\n"
ContentLengthPrefix == "Content-Length: "
DigitChars == "0123456789"

ErrNotInitialized == "tsserver is not initialized"
ErrResponseTimeout == "tsserver response timeout"
ErrNotWritable == "tsserver stdin not writable"
ErrStartupTimeout == "Timeout waiting for tsserver to be ready"

-----------------------------------------------------------------------------
(* JavaScript string primitives. *)

Min(a, b) == IF a <= b THEN a ELSE b
Max(a, b) == IF a >= b THEN a ELSE b

\* String.prototype.substring(a, b): 0-based, end exclusive, arguments clamped
\* to [0, length] and swapped when a > b.
Clamp(a, length) == Max(0, Min(a, length))
Between(s, a, b) == SubSeq(s, Min(a, b) + 1, Max(a, b))
Substring(s, a, b) == Between(s, Clamp(a, Len(s)), Clamp(b, Len(s)))

\* String.prototype.substring(a): to the end of the string.
SubstringFrom(s, a) == Substring(s, a, Len(s))

\* String.prototype.indexOf(needle): 0-based index of the first occurrence, -1 if none.
RECURSIVE IndexFrom(_, _, _)
IndexFrom(s, needle, i) ==
    IF i + Len(needle) > Len(s) THEN -1
    ELSE IF SubSeq(s, i + 1, i + Len(needle)) = needle THEN i
    ELSE IndexFrom(s, needle, i + 1)

IndexOf(s, needle) == IndexFrom(s, needle, 0)

IsDigit(c) == \E d \in 1..10 : SubSeq(DigitChars, d, d) = c

DigitValue(c) == (CHOOSE d \in 1..10 : SubSeq(DigitChars, d, d) = c) - 1

\* parseInt(digits, 10) of a non-empty string of decimal digits.
RECURSIVE parseInt(_)
parseInt(digits) ==
    IF digits = "" THEN 0
    ELSE parseInt(SubSeq(digits, 1, Len(digits) - 1)) * 10
         + DigitValue(SubSeq(digits, Len(digits), Len(digits)))

\* Number -> decimal text, as template literals and JSON.stringify write it.
RECURSIVE NumberToString(_)
NumberToString(n) ==
    IF n < 0 THEN "-" \o NumberToString(-n)
    ELSE IF n < 10 THEN SubSeq(DigitChars, n + 1, n + 1)
    ELSE NumberToString(n \div 10) \o SubSeq(DigitChars, (n % 10) + 1, (n % 10) + 1)

\* The least and the greatest element of a non-empty set of numbers.
Least(S) == CHOOSE a \in S : \A b \in S : a <= b
Greatest(S) == CHOOSE a \in S : \A b \in S : a >= b

\* The places (0-based) where the text has "Content-Length: " and a digit after it.
PrefixStarts(text) ==
    {i \in 0..(Len(text) - Len(ContentLengthPrefix) - 1) :
        /\ SubSeq(text, i + 1, i + Len(ContentLengthPrefix)) = ContentLengthPrefix
        /\ IsDigit(SubSeq(text, i + Len(ContentLengthPrefix) + 1,
                          i + Len(ContentLengthPrefix) + 1))}

\* The digits of the text from place from (0-based) on, as many as there are.
DigitRun(text, from) ==
    Substring(text, from,
              Greatest({e \in from..Len(text) :
                           \A k \in (from + 1)..e : IsDigit(SubSeq(text, k, k))}))

FirstDigitRun(text, starts) ==
    IF starts = {} THEN "" ELSE DigitRun(text, Least(starts) + Len(ContentLengthPrefix))

\* header.match(/Content-Length: (\d+)/): the first place where the prefix is
\* followed by a digit, and the longest run of digits from there (capture group 1).
\* "" stands for null (no match); a match is never empty.
ContentLengthMatch(header) == FirstDigitRun(header, PrefixStarts(header))

-----------------------------------------------------------------------------
(* The messages of the tsserver protocol the model uses, and their JSON text. *)
(* A message is a record holding the fields that are present.                 *)

SeqIds == 1..Max(MaxSeq, MaxSessionSeq)

ReadyEvent == [type |-> "event", event |-> "typingsInstallerPid"]
OtherEvent == [type |-> "event", event |-> "projectLoadingStart"]
Response(n, ok) == [type |-> "response", request_seq |-> n, success |-> ok]
SuccessOnly == [success |-> TRUE]
EmptyObject == [f \in {} |-> TRUE]

Messages ==
    {ReadyEvent, OtherEvent, SuccessOnly, EmptyObject}
        \cup {Response(n, ok) : n \in SeqIds \cup {CONNECT_MESSAGE_KEY}, ok \in BOOLEAN}

Quoted(s) == "\"" \o s \o "\""

RECURSIVE JoinComma(_)
JoinComma(parts) ==
    IF parts = <<>> THEN ""
    ELSE IF Len(parts) = 1 THEN parts[1]
    ELSE parts[1] \o "," \o JoinComma(Tail(parts))

\* JSON.stringify of a message: its present fields, in insertion order.
Stringify(m) ==
    LET has(f) == f \in DOMAIN m
        p1 == IF has("type") THEN <<Quoted("type") \o ":" \o Quoted(m.type)>> ELSE <<>>
        p2 == IF has("event") THEN <<Quoted("event") \o ":" \o Quoted(m.event)>> ELSE <<>>
        p3 == IF has("request_seq")
              THEN <<Quoted("request_seq") \o ":" \o NumberToString(m.request_seq)>> ELSE <<>>
        p4 == IF has("success")
              THEN <<Quoted("success") \o ":" \o (IF m.success THEN "true" ELSE "false")>>
              ELSE <<>>
    IN  "{" \o JoinComma(p1 \o p2 \o p3 \o p4) \o "}"

\* The JSON text of each message of the model.
MessageText == [m \in Messages |-> Stringify(m)]

IsSpace(c) == c \in {" ", "\n", "\r", "\t"}

\* JSON.parse skips white space around the value.
RECURSIVE TrimSpace(_)
TrimSpace(s) ==
    IF s = "" THEN s
    ELSE IF IsSpace(SubSeq(s, 1, 1)) THEN TrimSpace(SubSeq(s, 2, Len(s)))
    ELSE IF IsSpace(SubSeq(s, Len(s), Len(s))) THEN TrimSpace(SubSeq(s, 1, Len(s) - 1))
    ELSE s

\* JSON.parse(text) on the texts the model produces: the message whose JSON
\* text it is; any other text here (the empty string, a piece of a header, a
\* piece of a body) makes JSON.parse throw a SyntaxError.
MessagesWithText(t) == {m \in Messages : MessageText[m] = t}
ParsedAmong(ms) == IF ms = {} THEN [ok |-> FALSE] ELSE [ok |-> TRUE, value |-> CHOOSE m \in ms : TRUE]
JSONParse(text) == ParsedAmong(MessagesWithText(TrimSpace(text)))

\* One Content-Length frame, as tsserver writes it to its stdout.
Frame(body) == ContentLengthPrefix \o NumberToString(Len(body)) \o HeaderDelimiter \o body

\* The frame of each message of the model.
MessageFrame == [m \in Messages |-> Frame(MessageText[m])]

-----------------------------------------------------------------------------
(* Promises.  A promise is named by the call that made it; calls[p] lists the *)
(* invocations of its resolve and reject callbacks.  The first one settles    *)
(* the promise, the later ones change nothing a caller can see.               *)

InitPromise(k) == <<"init", k>>
CallPromise(n) == <<"call", n>>
Promises == {InitPromise(k) : k \in 1..MaxInit} \cup {CallPromise(n) : n \in SeqIds}

Resolved(v) == [how |-> "resolve", with |-> v]
Rejected(e) == [how |-> "reject", with |-> e]
\* resolve() without an argument: undefined, a value that is no message.
NoValue == [undefined |-> TRUE]

Invoke(cl, p, outcome) == [cl EXCEPT ![p] = Append(@, outcome)]

Settled(p) == calls[p] # <<>>
Outcome(p) == calls[p][1]

-----------------------------------------------------------------------------
(* The decoder and the dispatch of decoded messages. *)

\* Map.prototype.delete
MapDelete(map, key) == [k \in (DOMAIN map) \ {key} |-> map[k]]
\* Map.prototype.set
MapSet(map, key, val) == [k \in (DOMAIN map) \cup {key} |-> IF k = key THEN val ELSE map[k]]

\* A dispatch that settles the oldest waiting call with whatever reply arrives,
\* the way a client without seq correlation would.
dispatchOldest(pc, cl, response) ==
    IF "type" \in DOMAIN response /\ response.type = "event"
       /\ "event" \in DOMAIN response /\ response.event = "typingsInstallerPid"
    THEN IF CONNECT_MESSAGE_KEY \in DOMAIN pc
         THEN [pendingCommands |-> MapDelete(pc, CONNECT_MESSAGE_KEY),
               calls |-> Invoke(cl, pc[CONNECT_MESSAGE_KEY], Resolved(NoValue))]
         ELSE [pendingCommands |-> pc, calls |-> cl]
    ELSE IF "request_seq" \in DOMAIN response /\ (DOMAIN pc) \cap SeqIds # {}
    THEN [pendingCommands |-> MapDelete(pc, Least((DOMAIN pc) \cap SeqIds)),
          calls |-> Invoke(cl, pc[Least((DOMAIN pc) \cap SeqIds)], Resolved(response))]
    ELSE [pendingCommands |-> pc, calls |-> cl]

\* The body of processMessage after JSON.parse has returned response, on the
\* Map pc and the promises cl.  The TypeError of destructuring undefined, when
\* the sentinel is not in the Map, is caught and logged and changes nothing.
dispatch(pc, cl, response) ==
    IF "type" \in DOMAIN response /\ response.type = "event"
       /\ "event" \in DOMAIN response /\ response.event = "typingsInstallerPid"
    THEN IF CONNECT_MESSAGE_KEY \in DOMAIN pc
         THEN [pendingCommands |-> MapDelete(pc, CONNECT_MESSAGE_KEY),
               calls |-> Invoke(cl, pc[CONNECT_MESSAGE_KEY], Resolved(NoValue))]
         ELSE [pendingCommands |-> pc, calls |-> cl]
    ELSE IF "request_seq" \in DOMAIN response /\ response.request_seq \in DOMAIN pc
    THEN [pendingCommands |-> MapDelete(pc, response.request_seq),
          calls |-> Invoke(cl, pc[response.request_seq], Resolved(response))]
    ELSE [pendingCommands |-> pc, calls |-> cl]

\* The try block of processMessage: a SyntaxError of JSON.parse is caught and
\* logged and changes nothing.
tryDispatch(st, parsed) ==
    IF parsed.ok THEN dispatch(st.pendingCommands, st.calls, parsed.value) ELSE st

\* processMessage(message): st is [pendingCommands, calls].
processMessage(st, message) == tryDispatch(st, JSONParse(message))

\* The if of hasCompleteMessage: the expectedLength it leaves behind.
lengthFromHeader(expected, headerEndIndex, contentLengthMatch) ==
    IF expected = 0 /\ headerEndIndex # -1 /\ contentLengthMatch # ""
    THEN parseInt(contentLengthMatch)
    ELSE expected

\* A return of hasCompleteMessage that takes a declared length of 0 for no
\* length at all and waits for a body.
completeWithPositiveLength(buf, expected, headerEndIndex) ==
    [expectedLength |-> expected,
     headerEndIndex |-> headerEndIndex,
     result |-> expected > 0 /\ Len(buf) >= expected + headerEndIndex + 4]

\* A return of hasCompleteMessage that counts one character for the
\* delimiter instead of four.
completeWithShortDelimiter(buf, expected, headerEndIndex) ==
    [expectedLength |-> expected,
     headerEndIndex |-> headerEndIndex,
     result |-> Len(buf) >= expected + headerEndIndex + 1]

\* The return of hasCompleteMessage.
completeWith(buf, expected, headerEndIndex) ==
    [expectedLength |-> expected,
     headerEndIndex |-> headerEndIndex,
     result |-> Len(buf) >= expected + headerEndIndex + 4]

hasCompleteAt(buf, expected, headerEndIndex) ==
    completeWith(buf,
                 lengthFromHeader(expected, headerEndIndex,
                                  ContentLengthMatch(Substring(buf, 0, headerEndIndex))),
                 headerEndIndex)

\* hasCompleteMessage(): its result, the expectedLength it leaves behind, and
\* buffer.indexOf('\r\n\r\n'), which it and onData compute on the same buffer.
hasCompleteMessage(buf, expected) == hasCompleteAt(buf, expected, IndexOf(buf, HeaderDelimiter))

\* The body of the while loop of onData, but for its processMessage call: the
\* message is cut off the buffer and expectedLength is reset.
cutOne(d, headerEndIndex, expected) ==
    [buffer |-> SubstringFrom(d.buffer, headerEndIndex + expected),
     expectedLength |-> 0,
     messages |-> Append(d.messages,
                         Substring(d.buffer, headerEndIndex, headerEndIndex + expected))]

\* The while loop of onData on the buffer: d is [buffer, expectedLength,
\* messages], messages being the arguments of its processMessage calls, in
\* order.  processMessage reads and writes neither buffer nor expectedLength,
\* so what the loop cuts does not depend on what the messages do.
RECURSIVE cutFrames(_)
cutNext(d, h) ==
    IF h.result THEN cutFrames(cutOne(d, h.headerEndIndex + 4, h.expectedLength))
    ELSE [d EXCEPT !.expectedLength = h.expectedLength]

cutFrames(d) == cutNext(d, hasCompleteMessage(d.buffer, d.expectedLength))

\* cutFrames of each whole frame of the model arriving on an empty buffer,
\* computed once.
WholeFrames == {MessageFrame[m] : m \in Messages}
WholeFrameCut ==
    [f \in WholeFrames |-> cutFrames([buffer |-> f, expectedLength |-> 0, messages |-> <<>>])]

\* buffer += rawData and the loop.
appendAndCut(buf, expected, rawData) ==
    IF buf = "" /\ expected = 0 /\ rawData \in WholeFrames
    THEN WholeFrameCut[rawData]
    ELSE cutFrames([buffer |-> buf \o rawData, expectedLength |-> expected, messages |-> <<>>])

\* A loop that a SyntaxError of JSON.parse leaves: the messages behind the one
\* that does not parse are not dispatched.
RECURSIVE processAllUntilThrow(_, _)
processAllUntilThrow(st, messages) ==
    IF messages = <<>> THEN st
    ELSE IF ~JSONParse(Head(messages)).ok THEN st
    ELSE processAllUntilThrow(processMessage(st, Head(messages)), Tail(messages))

\* processMessage on each message of the loop, in order.
RECURSIVE processAll(_, _)
processAll(st, messages) ==
    IF messages = <<>> THEN st
    ELSE processAll(processMessage(st, Head(messages)), Tail(messages))

onDataResult(cut, st) ==
    [buffer |-> cut.buffer, expectedLength |-> cut.expectedLength,
     dispatched |-> cut.messages,
     pendingCommands |-> st.pendingCommands, calls |-> st.calls]

dispatchCut(cut, pc, cl) ==
    onDataResult(cut, processAll([pendingCommands |-> pc, calls |-> cl], cut.messages))

\* onData(rawData) from the given client state: the buffer and expectedLength
\* it leaves, the messages it dispatched, the Map and the promises afterwards.
onData(buf, expected, pc, cl, rawData) ==
    dispatchCut(appendAndCut(buf, expected, rawData), pc, cl)

-----------------------------------------------------------------------------
(* The client instance and its child processes. *)

Impls == {"server", "startTsserver"}

\* The command names the model sends: the five that one file or the other
\* answers at once, and quickinfo for the ones that wait for their reply.
Commands == {"open", "geterr", "geterrForProject", "saveto", "reloadProjects", "quickinfo"}

\* The first if of sendCommand without saveto in its list.
IsFireAndForgetWithoutSaveto(file, command) ==
    \/ command \in {"open", "geterr", "geterrForProject"}
    \/ file = "startTsserver" /\ command = "reloadProjects"

\* The first if of sendCommand: the commands resolved at once.
IsFireAndForget(file, command) ==
    \/ command \in {"open", "geterr", "geterrForProject", "saveto"}
    \/ file = "startTsserver" /\ command = "reloadProjects"

ChildIds == 1..MaxInit

\* A child process: status is "none" before spawn, "running", "signalled"
\* once kill() has sent it SIGTERM, "closed" once its 'close' event has fired;
\* writable is stdin.writable; received holds the seq of the requests
\* written to its stdin.
NoChild == [status |-> "none", writable |-> FALSE, received |-> {}]
Spawned == [status |-> "running", writable |-> TRUE, received |-> {}]
\* A closed child has no stdin and answers nothing.
Closed == [status |-> "closed", writable |-> FALSE, received |-> {}]

Alive(c) == children[c].status \in {"running", "signalled"}

\* What the sendCommand call of the last step did before it returned: result is
\* "resolved" (a promise already resolved with no value), "pending" (a promise
\* not yet settled), "threw TypeError", or the message of the error the
\* returned promise was rejected with; wrote says that stdin.write was called.
\* NoRet after any other step.
Ret(result, wrote) == [result |-> result, wrote |-> wrote]
NoRet == Ret("none", FALSE)

EmptyMap == [k \in {} |-> InitPromise(1)]

\* No language-server client has been started.
NoLsp == [file |-> "none"]

\* createTSServerInstance(): the state of a new instance, no child spawned.
Init ==
    /\ impl \in Impls
    /\ tsserverProcess = 0
    /\ seqNumber = 0
    /\ pendingCommands = EmptyMap
    /\ buffer = ""
    /\ expectedLength = 0
    /\ startupTimers = {}
    /\ callTimers = {}
    /\ calls = [p \in Promises |-> <<>>]
    /\ children = [c \in ChildIds |-> NoChild]
    /\ nInit = 0
    /\ ret = NoRet
    /\ stream = ""
    /\ rest = ""
    /\ out = <<>>
    /\ lsp = NoLsp

\* An initTSServer that starts no startup timer.
initTSServerWithoutTimer ==
    /\ nInit' = nInit + 1
    /\ children' = [children EXCEPT ![nInit + 1] = Spawned]
    /\ tsserverProcess' = nInit + 1
    /\ pendingCommands' = MapSet(pendingCommands, CONNECT_MESSAGE_KEY, InitPromise(nInit + 1))
    /\ ret' = NoRet
    /\ UNCHANGED <<impl, seqNumber, buffer, expectedLength, startupTimers, callTimers, calls,
                   harnessVars, lsp>>

\* initTSServer(): spawn, register the sentinel, attach the handlers, start
\* the startup timer.  One synchronous block: no event runs inside it.
initTSServer ==
    /\ LET k == nInit + 1
       IN  /\ nInit' = k
           /\ children' = [children EXCEPT ![k] = Spawned]
           /\ tsserverProcess' = k
           /\ pendingCommands' = MapSet(pendingCommands, CONNECT_MESSAGE_KEY, InitPromise(k))
           /\ startupTimers' = startupTimers \cup {k}
           /\ ret' = NoRet
    /\ UNCHANGED <<impl, seqNumber, buffer, expectedLength, callTimers, calls, harnessVars, lsp>>

\* The startup timer of the k-th initTSServer fires: reject(...).
startupTimeout(k) ==
    /\ k \in startupTimers
    /\ startupTimers' = startupTimers \ {k}
    /\ calls' = Invoke(calls, InitPromise(k), Rejected(ErrStartupTimeout))
    /\ ret' = NoRet
    /\ UNCHANGED <<impl, clientVars, callTimers, children, nInit, harnessVars, lsp>>

\* The first branch of sendCommand: write and return Promise.resolve().
\* tsserverProcess.stdin of null throws a TypeError out of sendCommand; a write
\* to a stream that is not writable reaches nobody.
sendAtOnce ==
    /\ IF tsserverProcess = 0
       THEN ret' = Ret("threw TypeError", FALSE)
       ELSE ret' = Ret("resolved", TRUE)
    /\ UNCHANGED <<seqNumber, pendingCommands, callTimers, calls, children>>

\* if (!tsserverProcess) { reject(...); return; }
rejectNotInitialized ==
    /\ ret' = Ret(ErrNotInitialized, FALSE)
    /\ UNCHANGED <<seqNumber, pendingCommands, callTimers, calls, children>>

\* An end of sendCommand that writes without looking at stdin.writable.
writeOrRejectUnchecked(seq, writable) ==
    /\ callTimers' = callTimers \cup {seq}
    /\ children' = [children EXCEPT ![tsserverProcess].received =
                        IF writable THEN @ \cup {seq} ELSE @]
    /\ calls' = calls
    /\ ret' = Ret("pending", TRUE)

\* An end of sendCommand that starts no timer for the request it writes.
writeOrRejectWithoutTimer(seq, writable) ==
    IF writable
    THEN /\ callTimers' = callTimers
         /\ children' = [children EXCEPT ![tsserverProcess].received = @ \cup {seq}]
         /\ calls' = calls
         /\ ret' = Ret("pending", TRUE)
    ELSE /\ callTimers' = callTimers
         /\ children' = children
         /\ calls' = Invoke(calls, CallPromise(seq), Rejected(ErrNotWritable))
         /\ ret' = Ret(ErrNotWritable, FALSE)

\* The end of sendCommand: write the request, whose timer then runs, or clear
\* the timer and reject.
writeOrReject(seq, writable) ==
    IF writable
    THEN /\ callTimers' = callTimers \cup {seq}
         /\ children' = [children EXCEPT ![tsserverProcess].received = @ \cup {seq}]
         /\ calls' = calls
         /\ ret' = Ret("pending", TRUE)
    ELSE /\ callTimers' = callTimers
         /\ children' = children
         /\ calls' = Invoke(calls, CallPromise(seq), Rejected(ErrNotWritable))
         /\ ret' = Ret(ErrNotWritable, FALSE)

\* command.seq = ++seqNumber; pendingCommands.set(command.seq, {resolve, reject});
register(seq) ==
    /\ seqNumber' = seq
    /\ pendingCommands' = MapSet(pendingCommands, seq, CallPromise(seq))

\* sendCommand(command)
sendCommand(command) ==
    /\ IF IsFireAndForget(impl, command) THEN sendAtOnce
       ELSE IF tsserverProcess = 0 THEN rejectNotInitialized
       ELSE /\ register(seqNumber + 1)
            /\ writeOrReject(seqNumber + 1, children[tsserverProcess].writable)
    /\ UNCHANGED <<impl, tsserverProcess, buffer, expectedLength, startupTimers, nInit,
                   harnessVars, lsp>>

\* The model sends at most maxSeq commands that take a seq.
MaySend(command, maxSeq) ==
    IsFireAndForget(impl, command) \/ tsserverProcess = 0 \/ seqNumber < maxSeq

\* A timer callback that rejects and leaves the entry in the Map.
responseTimeoutKeepsEntry(seq) ==
    /\ seq \in callTimers
    /\ callTimers' = callTimers \ {seq}
    /\ IF seq \in DOMAIN pendingCommands
       THEN /\ pendingCommands' = pendingCommands
            /\ calls' = Invoke(calls, pendingCommands[seq], Rejected(ErrResponseTimeout))
       ELSE UNCHANGED <<pendingCommands, calls>>
    /\ ret' = NoRet
    /\ UNCHANGED <<impl, tsserverProcess, seqNumber, buffer, expectedLength, startupTimers,
                   children, nInit, harnessVars, lsp>>

\* The timer of the call with this seq fires.
responseTimeout(seq) ==
    /\ seq \in callTimers
    /\ callTimers' = callTimers \ {seq}
    /\ IF seq \in DOMAIN pendingCommands
       THEN /\ pendingCommands' = MapDelete(pendingCommands, seq)
            /\ calls' = Invoke(calls, pendingCommands[seq], Rejected(ErrResponseTimeout))
       ELSE UNCHANGED <<pendingCommands, calls>>
    /\ ret' = NoRet
    /\ UNCHANGED <<impl, tsserverProcess, seqNumber, buffer, expectedLength, startupTimers,
                   children, nInit, harnessVars, lsp>>

\* What child c may write: its readiness event, an event of its own, a reply
\* to a request that was written to its stdin.
ChildMessages(c) ==
    {ReadyEvent, OtherEvent} \cup {Response(n, TRUE) : n \in children[c].received}

\* The 'data' handler of the child's stdout: onData(data).
becomes(d) ==
    /\ buffer' = d.buffer
    /\ expectedLength' = d.expectedLength
    /\ pendingCommands' = d.pendingCommands
    /\ calls' = d.calls

applyOnData(rawData) == becomes(onData(buffer, expectedLength, pendingCommands, calls, rawData))

\* Child c writes one message as one frame and the client reads it in one chunk.
stdoutData(c, m) ==
    /\ Alive(c)
    /\ m \in ChildMessages(c)
    /\ applyOnData(MessageFrame[m])
    /\ ret' = NoRet
    /\ UNCHANGED <<impl, tsserverProcess, seqNumber, startupTimers, callTimers, children, nInit,
                   harnessVars, lsp>>

\* The stdin of child c stops being writable while the child lives on.
stdinCloses(c) ==
    /\ Alive(c)
    /\ children[c].writable
    /\ children' = [children EXCEPT ![c].writable = FALSE]
    /\ ret' = NoRet
    /\ UNCHANGED <<impl, clientVars, startupTimers, callTimers, calls, nInit, harnessVars, lsp>>

\* Child c exits and its 'close' event fires: the handler logs the exit code.
childClose(c) ==
    /\ Alive(c)
    /\ children' = [children EXCEPT ![c] = Closed]
    /\ ret' = NoRet
    /\ UNCHANGED <<impl, clientVars, startupTimers, callTimers, calls, nInit, harnessVars, lsp>>

\* A killTSServer that starts the seq counter again from 0.
killTSServerResettingSeq ==
    /\ IF tsserverProcess # 0
       THEN /\ children' = [children EXCEPT ![tsserverProcess].status =
                                IF @ = "running" THEN "signalled" ELSE @]
            /\ tsserverProcess' = 0
       ELSE UNCHANGED <<children, tsserverProcess>>
    /\ seqNumber' = 0
    /\ ret' = NoRet
    /\ UNCHANGED <<impl, pendingCommands, buffer, expectedLength, startupTimers,
                   callTimers, calls, nInit, harnessVars, lsp>>

\* killTSServer()
killTSServer ==
    /\ IF tsserverProcess # 0
       THEN /\ children' = [children EXCEPT ![tsserverProcess].status =
                                IF @ = "running" THEN "signalled" ELSE @]
            /\ tsserverProcess' = 0
       ELSE UNCHANGED <<children, tsserverProcess>>
    /\ ret' = NoRet
    /\ UNCHANGED <<impl, seqNumber, pendingCommands, buffer, expectedLength, startupTimers,
                   callTimers, calls, nInit, harnessVars, lsp>>

\* exitServer()
exitServer ==
    /\ ret' = NoRet
    /\ tsserverProcess' = 0
    /\ UNCHANGED <<impl, seqNumber, pendingCommands, buffer, expectedLength, startupTimers,
                   callTimers, calls, children, nInit, harnessVars, lsp>>

\* The steps of a client but for initTSServer: timers, commands, what the
\* children do, the two ways of ending the child.
Running(maxSeq) ==
    \/ \E k \in ChildIds : startupTimeout(k)
    \/ \E command \in Commands : MaySend(command, maxSeq) /\ sendCommand(command)
    \/ \E seq \in 1..maxSeq : responseTimeout(seq)
    \/ \E c \in ChildIds : \E m \in Messages : stdoutData(c, m)
    \/ \E c \in ChildIds : stdinCloses(c)
    \/ \E c \in ChildIds : childClose(c)
    \/ killTSServer
    \/ exitServer

\* The steps of a client that calls initTSServer at most maxInit times and
\* sends at most maxSeq commands that take a seq.
Step(maxInit, maxSeq) ==
    \/ nInit < maxInit /\ initTSServer
    \/ Running(maxSeq)

\* Any use of one instance, initTSServer called again included.
Next == Step(MaxInit, MaxSeq)

Spec == Init /\ [][Next]_vars

\* One session: initTSServer is called once.
NextSession == Step(Min(MaxInit, 1), MaxSessionSeq)

SpecSession == Init /\ [][NextSession]_vars

\* A notification written without a look at the process handle or at
\* stdin.writable.
writeWithoutLooking ==
    ret' = IF tsserverProcess = 0 THEN Ret("threw TypeError", FALSE) ELSE Ret("returned", TRUE)

\* if (tsserverProcess && tsserverProcess.stdin.writable) { stdin.write(...) }
\* and the return of undefined.
writeIfWritable ==
    ret' = Ret("returned", tsserverProcess # 0 /\ children[tsserverProcess].writable)

\* sendChange(filePath, start, end, newText), start and end being positions.
sendChange ==
    /\ writeIfWritable
    /\ UNCHANGED <<impl, clientVars, startupTimers, callTimers, calls, children, nInit,
                   harnessVars, lsp>>

\* closeFile(filePath)
closeFile ==
    /\ writeIfWritable
    /\ UNCHANGED <<impl, clientVars, startupTimers, callTimers, calls, children, nInit,
                   harnessVars, lsp>>

NextNotify ==
    \/ NextSession
    \/ sendChange
    \/ closeFile

SpecNotify == Init /\ [][NextNotify]_vars

\* Timers fire: Node runs every scheduled timeout.
TimersFire ==
    /\ \A k \in ChildIds : WF_vars(startupTimeout(k))
    /\ \A seq \in SeqIds : WF_vars(responseTimeout(seq))

FairSession == SpecSession /\ TimersFire

\* Child c answers the request n it was sent with success: false.
failureReply(c, n) ==
    /\ Alive(c)
    /\ n \in children[c].received
    /\ applyOnData(MessageFrame[Response(n, FALSE)])
    /\ ret' = NoRet
    /\ UNCHANGED <<impl, tsserverProcess, seqNumber, startupTimers, callTimers, children, nInit,
                   harnessVars, lsp>>

\* An instance initialised once whose child may also refuse a request.
NextFailing ==
    \/ NextSession
    \/ \E c \in ChildIds : \E n \in SeqIds : failureReply(c, n)

SpecFailing == Init /\ [][NextFailing]_vars

FairFailing == SpecFailing /\ TimersFire

\* A frame body that is no JSON text.
GarbledBody == "{oops"

\* What may follow the garbled frame in the chunk: nothing, or one frame of
\* child c.
Followers(c) == {""} \cup {MessageFrame[m] : m \in ChildMessages(c)}

\* Child c writes a frame whose body is no JSON text, once in a behaviour, and
\* the client reads it in one chunk with what follows it; out is what that
\* onData call handed to processMessage.
garbled(c, follow) ==
    /\ out = <<>>
    /\ Alive(c)
    /\ follow \in Followers(c)
    /\ applyOnData(Frame(GarbledBody) \o follow)
    /\ out' = onData(buffer, expectedLength, pendingCommands, calls,
                     Frame(GarbledBody) \o follow).dispatched
    /\ ret' = NoRet
    /\ UNCHANGED <<impl, tsserverProcess, seqNumber, startupTimers, callTimers, children, nInit,
                   stream, rest, lsp>>

\* An instance initialised once whose child also writes garbled frames.
NextGarbled ==
    \/ Step(Min(MaxInit, 1), MaxSeq)
    \/ \E c \in ChildIds : \E follow \in {""} \cup WholeFrames : garbled(c, follow)

SpecGarbled == Init /\ [][NextGarbled]_vars

\* Child c writes a reply whose request_seq is the key of the sentinel.
sentinelReply(c, ok) ==
    /\ Alive(c)
    /\ applyOnData(MessageFrame[Response(CONNECT_MESSAGE_KEY, ok)])
    /\ ret' = NoRet
    /\ UNCHANGED <<impl, tsserverProcess, seqNumber, startupTimers, callTimers, children, nInit,
                   harnessVars, lsp>>

\* An instance initialised once whose child may also write such a reply.
NextSentinelReply ==
    \/ NextSession
    \/ \E c \in ChildIds : \E ok \in BOOLEAN : sentinelReply(c, ok)

SpecSentinelReply == Init /\ [][NextSentinelReply]_vars

\* initTSServer statement by statement.  InitSpawned is the position of a call
\* that has run spawn and setEncoding and not yet pendingCommands.set.
InitSpawned == Ret("spawned", FALSE)

\* tsserverProcess = spawn(nodePath, [tsserverPath]); setEncoding('utf8');
spawnChild ==
    /\ nInit' = nInit + 1
    /\ children' = [children EXCEPT ![nInit + 1] = Spawned]
    /\ tsserverProcess' = nInit + 1
    /\ ret' = InitSpawned
    /\ UNCHANGED <<impl, seqNumber, pendingCommands, buffer, expectedLength, startupTimers,
                   callTimers, calls, harnessVars, lsp>>

\* pendingCommands.set(CONNECT_MESSAGE_KEY, {resolve, reject}); the handlers
\* are attached and the startup timer is started.
registerSentinel ==
    /\ ret = InitSpawned
    /\ pendingCommands' = MapSet(pendingCommands, CONNECT_MESSAGE_KEY, InitPromise(nInit))
    /\ startupTimers' = startupTimers \cup {nInit}
    /\ ret' = NoRet
    /\ UNCHANGED <<impl, tsserverProcess, seqNumber, buffer, expectedLength, callTimers, calls,
                   children, nInit, harnessVars, lsp>>

\* An event loop that runs callbacks and other calls while initTSServer is
\* between its statements, as it would be if the function awaited after spawn.
turnEndedInsideInit == TRUE

\* Run to completion: a timer callback, a 'data' or 'close' handler and another
\* API call run only when no call is in the middle of its synchronous block.
turnEnded == ret # InitSpawned

NextInitSteps ==
    \/ turnEnded /\ nInit < MaxInit /\ spawnChild
    \/ registerSentinel
    \/ turnEnded /\ Running(Min(MaxSeq, 1))

SpecInitSteps == Init /\ [][NextInitSteps]_vars

-----------------------------------------------------------------------------
(* The decoder harness: the child of a client that has just called          *)
(* initTSServer writes a stream of frames, and its stdout hands the stream   *)
(* to onData cut into chunks at any places.                                  *)

HarnessBodies == {"", MessageText[EmptyObject], MessageText[SuccessOnly] \o "\n"}

RECURSIVE BodySeqs(_)
BodySeqs(n) ==
    IF n = 0 THEN {<<>>}
    ELSE {<<>>} \cup {<<b>> \o t : b \in HarnessBodies, t \in BodySeqs(n - 1)}

RECURSIVE FrameStream(_)
FrameStream(bodies) ==
    IF bodies = <<>> THEN "" ELSE Frame(Head(bodies)) \o FrameStream(Tail(bodies))

Streams == {FrameStream(bs) : bs \in BodySeqs(MaxFrames) \ {<<>>}}

InitDecoder ==
    /\ impl \in Impls
    /\ tsserverProcess = 1
    /\ seqNumber = 0
    /\ pendingCommands = MapSet(EmptyMap, CONNECT_MESSAGE_KEY, InitPromise(1))
    /\ buffer = ""
    /\ expectedLength = 0
    /\ startupTimers = {1}
    /\ callTimers = {}
    /\ calls = [p \in Promises |-> <<>>]
    /\ children = [c \in ChildIds |-> IF c = 1 THEN Spawned ELSE NoChild]
    /\ nInit = 1
    /\ ret = NoRet
    /\ stream \in Streams
    /\ rest = stream
    /\ out = <<>>
    /\ lsp = NoLsp

logged(d) == becomes(d) /\ out' = out \o d.dispatched

\* The 'data' handler gets the next k characters of the stream.
feed(k) ==
    /\ k \in 1..Len(rest)
    /\ logged(onData(buffer, expectedLength, pendingCommands, calls, SubSeq(rest, 1, k)))
    /\ rest' = SubSeq(rest, k + 1, Len(rest))
    /\ ret' = NoRet
    /\ UNCHANGED <<impl, tsserverProcess, seqNumber, startupTimers, callTimers, children, nInit,
                   stream, lsp>>

NextDecoder == \E k \in 1..MaxChunk : feed(k)

SpecDecoder == InitDecoder /\ [][NextDecoder]_vars

-----------------------------------------------------------------------------
(* The UTF-8 harness.  The child writes bytes; a string of bytes is written  *)
(* here with one character per byte, the character whose code is the byte.   *)
(* stdout.setEncoding('utf8') decodes the bytes before onData gets them.     *)

\* U+00E9: one UTF-16 code unit, the two bytes C3 A9 in UTF-8.
EAcute == "é"
EAcuteBytes == "Ã©"

\* Buffer.from(text, 'utf8'): the bytes of a text.
RECURSIVE utf8Encode(_)
utf8Encode(text) ==
    IF text = "" THEN ""
    ELSE (IF SubSeq(text, 1, 1) = EAcute THEN EAcuteBytes ELSE SubSeq(text, 1, 1))
             \o utf8Encode(SubSeq(text, 2, Len(text)))

\* The text of a string of bytes that ends with a whole character.
RECURSIVE utf8Decode(_)
utf8Decode(bytes) ==
    IF bytes = "" THEN ""
    ELSE IF Substring(bytes, 0, 2) = EAcuteBytes
    THEN EAcute \o utf8Decode(SubstringFrom(bytes, 2))
    ELSE SubSeq(bytes, 1, 1) \o utf8Decode(SubstringFrom(bytes, 1))

\* A frame as tsserver writes it: Content-Length is Buffer.byteLength(body).
ByteFrame(body) ==
    ContentLengthPrefix \o NumberToString(Len(utf8Encode(body))) \o HeaderDelimiter
        \o utf8Encode(body)

RECURSIVE ByteStream(_)
ByteStream(bodies) ==
    IF bodies = <<>> THEN "" ELSE ByteFrame(Head(bodies)) \o ByteStream(Tail(bodies))

Utf8Bodies == {Quoted(EAcute), MessageText[EmptyObject]}

RECURSIVE Utf8BodySeqs(_)
Utf8BodySeqs(n) ==
    IF n = 0 THEN {<<>>}
    ELSE {<<>>} \cup {<<b>> \o t : b \in Utf8Bodies, t \in Utf8BodySeqs(n - 1)}

InitUtf8 ==
    /\ impl \in Impls
    /\ tsserverProcess = 1
    /\ seqNumber = 0
    /\ pendingCommands = MapSet(EmptyMap, CONNECT_MESSAGE_KEY, InitPromise(1))
    /\ buffer = ""
    /\ expectedLength = 0
    /\ startupTimers = {1}
    /\ callTimers = {}
    /\ calls = [p \in Promises |-> <<>>]
    /\ children = [c \in ChildIds |-> IF c = 1 THEN Spawned ELSE NoChild]
    /\ nInit = 1
    /\ ret = NoRet
    /\ stream \in {ByteStream(bs) : bs \in Utf8BodySeqs(MaxFrames) \ {<<>>}}
    /\ rest = stream
    /\ out = <<>>
    /\ lsp = NoLsp

\* The StringDecoder of setEncoding keeps the bytes of an unfinished character
\* for the next chunk, so the strings onData gets end where a character ends.
EndsCharacter(bytes, k) == Substring(bytes, k - 1, k + 1) # EAcuteBytes

\* The 'data' handler gets the text of the next k bytes of the stream.
feedBytes(k) ==
    /\ k \in 1..Len(rest)
    /\ EndsCharacter(rest, k)
    /\ logged(onData(buffer, expectedLength, pendingCommands, calls,
                     utf8Decode(SubSeq(rest, 1, k))))
    /\ rest' = SubSeq(rest, k + 1, Len(rest))
    /\ ret' = NoRet
    /\ UNCHANGED <<impl, tsserverProcess, seqNumber, startupTimers, callTimers, children, nInit,
                   stream, lsp>>

NextUtf8 == \E k \in 1..MaxChunk : feedBytes(k)

SpecUtf8 == InitUtf8 /\ [][NextUtf8]_vars

-----------------------------------------------------------------------------
(* The line-oriented client: the first createTSServerInstance of             *)
(* src/utils/startTsserver.js.  Its stdout handler splits each chunk at      *)
(* "\n" and parses the lines that start with "{"; it keeps no buffer and     *)
(* resolves initTSServer through the closure, not through the Map.           *)

\* lines per stream of the line harness
MaxLines == 2

\* String.prototype.split('\n')
RECURSIVE Split(_, _)
splitAt(s, sep, index) ==
    IF index = -1 THEN <<s>>
    ELSE <<Substring(s, 0, index)>> \o Split(SubstringFrom(s, index + Len(sep)), sep)

Split(s, sep) == splitAt(s, sep, IndexOf(s, sep))

\* String.prototype.startsWith
StartsWith(s, prefix) == Substring(s, 0, Len(prefix)) = prefix

ThrewSyntaxError == Ret("threw SyntaxError", FALSE)

\* onData(line) of the first instance: JSON.parse in a try block, then the
\* reply branch; an event is logged.
lineDispatch(st, response) ==
    IF "request_seq" \in DOMAIN response /\ response.request_seq \in DOMAIN st.pendingCommands
    THEN [st EXCEPT !.pendingCommands = MapDelete(@, response.request_seq),
                    !.calls = Invoke(@, st.pendingCommands[response.request_seq],
                                     Resolved(response))]
    ELSE st

lineOnData(st, parsed) == IF parsed.ok THEN lineDispatch(st, parsed.value) ELSE st

\* if (message.type === 'event' && message.event === 'typingsInstallerPid') resolve();
resolveIfReady(st, message) ==
    IF "type" \in DOMAIN message /\ message.type = "event"
       /\ "event" \in DOMAIN message /\ message.event = "typingsInstallerPid"
    THEN [st EXCEPT !.calls = Invoke(@, InitPromise(1), Resolved(NoValue))]
    ELSE st

\* The for loop of the stdout handler: st is [pendingCommands, calls, handed,
\* threw], handed being the lines given to onData; JSON.parse(line.trim()) is
\* in no try block, so its SyntaxError ends the loop and leaves the handler.
RECURSIVE forEachLine(_, _)
parsedLine(st, line, message, lines) ==
    IF ~message.ok THEN [st EXCEPT !.threw = TRUE]
    ELSE forEachLine(
             lineOnData([resolveIfReady(st, message.value) EXCEPT !.handed = Append(@, line)],
                        JSONParse(line)),
             lines)

forEachLine(st, lines) ==
    IF lines = <<>> THEN st
    ELSE IF ~StartsWith(TrimSpace(Head(lines)), "{") THEN forEachLine(st, Tail(lines))
    ELSE parsedLine(st, Head(lines), JSONParse(TrimSpace(Head(lines))), Tail(lines))

\* The 'data' handler of stdout on a chunk.
stdoutLines(pc, cl, data) ==
    forEachLine([pendingCommands |-> pc, calls |-> cl, handed |-> <<>>, threw |-> FALSE],
                Split(data, "\n"))

\* What tsserver writes line by line: a header line, blank lines, payloads;
\* and a payload that is no JSON text.
LineTexts ==
    {ContentLengthPrefix \o "2\r", "\r", MessageText[ReadyEvent], MessageText[Response(1, TRUE)],
     GarbledBody}

RECURSIVE LineSeqs(_)
LineSeqs(n) ==
    IF n = 0 THEN {<<>>}
    ELSE {<<>>} \cup {<<l>> \o t : l \in LineTexts, t \in LineSeqs(n - 1)}

RECURSIVE LineStream(_)
LineStream(lines) ==
    IF lines = <<>> THEN "" ELSE Head(lines) \o "\n" \o LineStream(Tail(lines))

\* The instance after initTSServer and one sendCommand, whose reply is due.
InitLines ==
    /\ impl = "startTsserverLines"
    /\ tsserverProcess = 1
    /\ seqNumber = 1
    /\ pendingCommands = MapSet(EmptyMap, 1, CallPromise(1))
    /\ buffer = ""
    /\ expectedLength = 0
    /\ startupTimers = {1}
    /\ callTimers = {1}
    /\ calls = [p \in Promises |-> <<>>]
    /\ children = [c \in ChildIds |->
                      IF c = 1 THEN [Spawned EXCEPT !.received = {1}] ELSE NoChild]
    /\ nInit = 1
    /\ ret = NoRet
    /\ stream \in {LineStream(ls) : ls \in LineSeqs(MaxLines) \ {<<>>}}
    /\ rest = stream
    /\ out = <<>>
    /\ lsp = NoLsp

linesBecome(st) ==
    /\ pendingCommands' = st.pendingCommands
    /\ calls' = st.calls
    /\ out' = out \o st.handed
    /\ ret' = IF st.threw THEN ThrewSyntaxError ELSE NoRet

\* The 'data' handler gets the next k characters of the stream.
lineFeed(k) ==
    /\ k \in 1..Len(rest)
    /\ linesBecome(stdoutLines(pendingCommands, calls, SubSeq(rest, 1, k)))
    /\ rest' = SubSeq(rest, k + 1, Len(rest))
    /\ UNCHANGED <<impl, tsserverProcess, seqNumber, buffer, expectedLength, startupTimers,
                   callTimers, children, nInit, stream, lsp>>

NextLines == \E k \in 1..MaxChunk : lineFeed(k)

SpecLines == InitLines /\ [][NextLines]_vars

-----------------------------------------------------------------------------
(* onData of server.js statement by statement, on chunks that need not be    *)
(* pieces of a valid stream.  out lists the chunks delivered so far.         *)

\* chunks delivered per run of the loop harness
MaxPieces == 3

\* The positions of an onData call: at the condition of its while loop, and
\* inside the body of the loop.
AtWhile == Ret("onData: while", FALSE)
InBody == Ret("onData: body", FALSE)

Pieces ==
    {"Con", ContentLengthPrefix \o "2", HeaderDelimiter, MessageText[EmptyObject],
     Frame(MessageText[EmptyObject]) \o Frame("") \o "x", ContentLengthPrefix \o "0\r\n"}

InitLoop ==
    /\ impl = "server"
    /\ tsserverProcess = 1
    /\ seqNumber = 0
    /\ pendingCommands = MapSet(EmptyMap, CONNECT_MESSAGE_KEY, InitPromise(1))
    /\ buffer = ""
    /\ expectedLength = 0
    /\ startupTimers = {1}
    /\ callTimers = {}
    /\ calls = [p \in Promises |-> <<>>]
    /\ children = [c \in ChildIds |-> IF c = 1 THEN Spawned ELSE NoChild]
    /\ nInit = 1
    /\ ret = NoRet
    /\ stream = ""
    /\ rest = ""
    /\ out = <<>>
    /\ lsp = NoLsp

\* buffer += rawData;
arrive(rawData) ==
    /\ ret = NoRet
    /\ Len(out) < MaxPieces
    /\ buffer' = buffer \o rawData
    /\ out' = Append(out, rawData)
    /\ ret' = AtWhile
    /\ UNCHANGED <<impl, tsserverProcess, seqNumber, pendingCommands, expectedLength,
                   startupTimers, callTimers, calls, children, nInit, stream, rest, lsp>>

\* while (hasCompleteMessage()): the call sets expectedLength, and the loop
\* goes into its body or onData returns.
whileTest ==
    /\ ret = AtWhile
    /\ expectedLength' = hasCompleteMessage(buffer, expectedLength).expectedLength
    /\ ret' = IF hasCompleteMessage(buffer, expectedLength).result THEN InBody ELSE NoRet
    /\ UNCHANGED <<impl, tsserverProcess, seqNumber, pendingCommands, buffer, startupTimers,
                   callTimers, calls, children, nInit, harnessVars, lsp>>

\* The body of the loop, processMessage included.
loopBody ==
    /\ ret = InBody
    /\ buffer' = SubstringFrom(buffer, IndexOf(buffer, HeaderDelimiter) + 4 + expectedLength)
    /\ expectedLength' = 0
    /\ pendingCommands' =
           processMessage([pendingCommands |-> pendingCommands, calls |-> calls],
                          Substring(buffer, IndexOf(buffer, HeaderDelimiter) + 4,
                                    IndexOf(buffer, HeaderDelimiter) + 4 + expectedLength)
                         ).pendingCommands
    /\ calls' =
           processMessage([pendingCommands |-> pendingCommands, calls |-> calls],
                          Substring(buffer, IndexOf(buffer, HeaderDelimiter) + 4,
                                    IndexOf(buffer, HeaderDelimiter) + 4 + expectedLength)
                         ).calls
    /\ ret' = AtWhile
    /\ UNCHANGED <<impl, tsserverProcess, seqNumber, startupTimers, callTimers, children, nInit,
                   harnessVars, lsp>>

NextLoop ==
    \/ \E rawData \in Pieces : arrive(rawData)
    \/ whileTest
    \/ loopBody

SpecLoop == InitLoop /\ [][NextLoop]_vars

-----------------------------------------------------------------------------
(* The language-server clients: connection of src/withTSService/lsp.js       *)
(* (startLanguageServer) and TypeScriptCompletionClient of                   *)
(* src/withTSService/typescript-service.js.  The state of the client is the  *)
(* record lsp: file says which of the two it is; nextRequestId (messageId in *)
(* typescript-service.js), pendingRequests, buffer and contentLength are its *)
(* variables of these names; requests holds, per request id, the resolve and *)
(* reject calls made on the promise sendRequest returned.                    *)

LspFiles == {"lsp", "typescript-service"}

\* sendRequest calls per run
MaxRequests == 3

\* nextRequestId: 1 in lsp.js; messageId = 0 in typescript-service.js
FirstRequestId(file) == IF file = "lsp" THEN 1 ELSE 0

RequestIds == 0..MaxRequests

\* const headerStr = buffer.toString('utf8', 0, Math.min(buffer.length, 1000))
HeaderWindow == 1000

ErrServerNotRunning == "Server is not running"
ErrRequestFailed == "Request failed"
ErrInvalidResponse == "Invalid response message"
ErrCompletionTimeout == "Completion request timed out after 10 seconds"

\* The JSON-RPC messages a language server writes: the result of a request,
\* its error, a notification.  "null" stands for the JSON value null.
LspResult(id) == [id |-> id, result |-> "null"]
LspError(id) == [id |-> id, error |-> [message |-> ErrRequestFailed]]
LspNotification == [method |-> "window/logMessage"]

LspMessages == {LspNotification} \cup {LspResult(id) : id \in RequestIds}
                   \cup {LspError(id) : id \in RequestIds}

\* JSON.stringify of a JSON-RPC message.
LspStringify(m) ==
    "{" \o Quoted("jsonrpc") \o ":" \o Quoted("2.0")
        \o (IF "id" \in DOMAIN m THEN "," \o Quoted("id") \o ":" \o NumberToString(m.id) ELSE "")
        \o (IF "method" \in DOMAIN m THEN "," \o Quoted("method") \o ":" \o Quoted(m.method)
            ELSE "")
        \o (IF "result" \in DOMAIN m THEN "," \o Quoted("result") \o ":" \o m.result ELSE "")
        \o (IF "error" \in DOMAIN m
            THEN "," \o Quoted("error") \o ":{" \o Quoted("message") \o ":"
                     \o Quoted(m.error.message) \o "}"
            ELSE "")
        \o "}"

LspText == [m \in LspMessages |-> LspStringify(m)]

LspFrame == [m \in LspMessages |-> Frame(LspText[m])]

\* JSON.parse(message) on the texts the model produces.
LspMessagesWithText(t) == {m \in LspMessages : LspText[m] = t}
LspParse(text) == ParsedAmong(LspMessagesWithText(TrimSpace(text)))

\* getCompletions of lsp.js: the result of the request, or { items: [] } when
\* the request was rejected.
getCompletions(outcome) ==
    IF outcome.how = "resolve" THEN outcome ELSE Resolved("{ items: [] }")

\* The promise of request id gets one more resolve or reject call; when the
\* request is the one getCompletions awaits, the race of lsp.js gets what
\* getCompletions returns.
settle(c, id, outcome) ==
    [c EXCEPT !.pendingRequests = MapDelete(@, id),
              !.requests[id] = Append(@, outcome),
              !.race = IF id = c.completionId THEN Append(@, getCompletions(outcome)) ELSE @]

\* connection.onMessage of lsp.js after JSON.parse: if (parsed.id) ...
answered(c, parsed) ==
    IF "id" \in DOMAIN parsed /\ parsed.id # 0 /\ parsed.id \in DOMAIN c.pendingRequests
    THEN settle(c, parsed.id,
                IF "error" \in DOMAIN parsed THEN Rejected(parsed.error.message)
                ELSE Resolved(parsed.result))
    ELSE c

\* _handleMessage of typescript-service.js
handleMessage(c, message) ==
    IF "id" \in DOMAIN message /\ message.id \in DOMAIN c.pendingRequests
    THEN settle(c, message.id,
                IF "error" \in DOMAIN message THEN Rejected(message.error.message)
                ELSE IF "result" \in DOMAIN message
                THEN Resolved([type |-> "response", body |-> message.result])
                ELSE Rejected(ErrInvalidResponse))
    ELSE c

\* try { JSON.parse; dispatch } catch { log }, in either file.
dispatchParsed(c, parsed) ==
    IF ~parsed.ok THEN c
    ELSE IF c.file = "lsp" THEN answered(c, parsed.value)
    ELSE handleMessage(c, parsed.value)

\* connection.onMessage(message) of lsp.js; the try block of the data handler
\* of typescript-service.js.
onMessage(c, message) == dispatchParsed(c, LspParse(message))

RECURSIVE onMessages(_, _)
onMessages(c, messages) ==
    IF messages = <<>> THEN c
    ELSE onMessages(onMessage(c, Head(messages)), Tail(messages))

\* The while loop of the stdout handler of lsp.js on d = [buffer,
\* contentLength, messages], messages being the arguments of its onMessage
\* calls.  headerProcessed is written and never read.  The branch for
\* messages of more than 100000 bytes breaks like the one beside it; its
\* timer re-emits 'data' only if the buffer has grown, which a 'data' event
\* has then handled already.
RECURSIVE lspCut(_)
\* A body branch that does not wait: it takes what the buffer holds of the
\* declared length.
lspTakeBodyAtOnce(d) ==
    lspCut([buffer |-> SubstringFrom(d.buffer, d.contentLength),
            contentLength |-> -1,
            messages |-> Append(d.messages, Substring(d.buffer, 0, d.contentLength))])

lspTakeBody(d) ==
    IF Len(d.buffer) >= d.contentLength
    THEN lspCut([buffer |-> SubstringFrom(d.buffer, d.contentLength),
                 contentLength |-> -1,
                 messages |-> Append(d.messages, Substring(d.buffer, 0, d.contentLength))])
    ELSE d

\* lengthMatch is capture group 1, "" for no match: the header is sliced off
\* either way, and without a length the loop breaks.
lspAfterHeader(d, headerEnd, lengthMatch) ==
    IF lengthMatch # ""
    THEN lspTakeBody([buffer |-> SubstringFrom(d.buffer, headerEnd + 4),
                      contentLength |-> parseInt(lengthMatch),
                      messages |-> d.messages])
    ELSE [d EXCEPT !.buffer = SubstringFrom(d.buffer, headerEnd + 4)]

lspTakeHeader(d, headerStr, headerEnd) ==
    IF headerEnd = -1 THEN d
    ELSE lspAfterHeader(d, headerEnd, ContentLengthMatch(Substring(headerStr, 0, headerEnd)))

lspHeaderIn(d, headerStr) == lspTakeHeader(d, headerStr, IndexOf(headerStr, HeaderDelimiter))

lspCut(d) ==
    IF d.buffer = "" THEN d
    ELSE IF d.contentLength = -1
    THEN lspHeaderIn(d, Substring(d.buffer, 0, Min(Len(d.buffer), HeaderWindow)))
    ELSE lspTakeBody(d)

\* buffer.match(/Content-Length: (\d+)\r\n\r\n/) of typescript-service.js: the
\* leftmost place where the prefix, a run of digits and the delimiter follow
\* each other.
HeaderMatchStarts(text) ==
    {i \in PrefixStarts(text) :
        LET e == i + Len(ContentLengthPrefix)
                   + Len(DigitRun(text, i + Len(ContentLengthPrefix)))
        IN  Substring(text, e, e + Len(HeaderDelimiter)) = HeaderDelimiter}

\* The while loop of the stdout handler of typescript-service.js.
RECURSIVE tsCut(_)
tsTakeBody(d, headerEnd, length) ==
    IF Len(d.buffer) < headerEnd + length THEN d
    ELSE tsCut([buffer |-> SubstringFrom(d.buffer, headerEnd + length),
                contentLength |-> d.contentLength,
                messages |-> Append(d.messages,
                                    Substring(d.buffer, headerEnd, headerEnd + length))])

tsAfterMatch(d, index, digits) ==
    tsTakeBody(d, index + Len(ContentLengthPrefix) + Len(digits) + Len(HeaderDelimiter),
               parseInt(digits))

tsHeaderAt(d, starts) ==
    IF starts = {} THEN d
    ELSE tsAfterMatch(d, Least(starts),
                      DigitRun(d.buffer, Least(starts) + Len(ContentLengthPrefix)))

tsCut(d) == IF d.buffer = "" THEN d ELSE tsHeaderAt(d, HeaderMatchStarts(d.buffer))

\* The loop of the file the client is of.
cutFor(file, d) == IF file = "lsp" THEN lspCut(d) ELSE tsCut(d)

\* The 'data' handler of the server's stdout, either file: append the chunk,
\* run the loop, hand each message over.  handed is what it handed over.
storeCut(c, d) ==
    [onMessages(c, d.messages) EXCEPT !.buffer = d.buffer,
                                      !.contentLength = d.contentLength,
                                      !.handed = d.messages]

lspOnData(c, chunk) ==
    storeCut(c, cutFor(c.file, [buffer |-> c.buffer \o chunk,
                                contentLength |-> c.contentLength,
                                messages |-> <<>>]))

\* A client whose server has just been spawned: startLanguageServer of
\* lsp.js, start of typescript-service.js before its initialize request.
\* completionId is the id of the request getCompletions awaits (-1: none),
\* raceTimer the timer of timeoutPromise, race the resolve and reject calls
\* that reach Promise.race, handed what the last 'data' event handed over,
\* shutdownId the id of the shutdown request a dispose or shutdownServer call
\* awaits (-1: none).
StartedLsp(file) ==
    [file |-> file,
     server |-> "running",
     nextRequestId |-> FirstRequestId(file),
     pendingRequests |-> EmptyMap,
     requests |-> [id \in RequestIds |-> <<>>],
     buffer |-> "",
     contentLength |-> -1,
     handed |-> <<>>,
     completionId |-> -1,
     raceTimer |-> "none",
     race |-> <<>>,
     shutdownId |-> -1]

instanceVars == <<impl, tsserverProcess, seqNumber, pendingCommands, buffer, expectedLength,
                  startupTimers, callTimers, calls, children, nInit>>

\* No tsserver instance, one language-server client.
InitLsp ==
    /\ impl = "server"
    /\ tsserverProcess = 0
    /\ seqNumber = 0
    /\ pendingCommands = EmptyMap
    /\ buffer = ""
    /\ expectedLength = 0
    /\ startupTimers = {}
    /\ callTimers = {}
    /\ calls = [p \in Promises |-> <<>>]
    /\ children = [c \in ChildIds |-> NoChild]
    /\ nInit = 0
    /\ ret = NoRet
    /\ stream = ""
    /\ rest = ""
    /\ out = <<>>
    /\ lsp \in {StartedLsp(file) : file \in LspFiles}

LspMethods == {"initialize", "textDocument/completion", "shutdown"}

\* const id = this.nextRequestId++; this.pendingRequests.set(id, {resolve, reject});
requested(c) ==
    [c EXCEPT !.nextRequestId = @ + 1,
              !.pendingRequests = MapSet(@, c.nextRequestId, c.nextRequestId)]

\* sendRequest(method, params), either file; typescript-service.js first
\* rejects when it has no server.
sendRequest(method) ==
    /\ lsp.file \in LspFiles
    /\ method \in LspMethods
    /\ IF lsp.file = "typescript-service" /\ lsp.server # "running"
       THEN lsp' = lsp /\ ret' = Ret(ErrServerNotRunning, FALSE)
       ELSE lsp' = requested(lsp) /\ ret' = Ret("pending", TRUE)
    /\ UNCHANGED <<instanceVars, harnessVars>>

\* The model sends at most MaxRequests requests.
MayRequest == lsp.file \in LspFiles /\ lsp.nextRequestId < FirstRequestId(lsp.file) + MaxRequests

\* main of lsp.js: getCompletions raced against a promise that a timer
\* rejects after 10 s.
completionWithTimeout ==
    /\ lsp.file = "lsp"
    /\ lsp.raceTimer = "none"
    /\ lsp' = [requested(lsp) EXCEPT !.completionId = lsp.nextRequestId,
                                      !.raceTimer = "armed"]
    /\ ret' = Ret("pending", TRUE)
    /\ UNCHANGED <<instanceVars, harnessVars>>

\* The timer of timeoutPromise fires.
completionTimeout ==
    /\ lsp.file = "lsp"
    /\ lsp.raceTimer = "armed"
    /\ lsp' = [lsp EXCEPT !.raceTimer = "fired",
                          !.race = Append(@, Rejected(ErrCompletionTimeout))]
    /\ ret' = NoRet
    /\ UNCHANGED <<instanceVars, harnessVars>>

\* The ids of the requests sent so far.
SentIds == {id \in RequestIds :
               lsp.file \in LspFiles /\ FirstRequestId(lsp.file) <= id /\ id < lsp.nextRequestId}

\* What the server may write: a notification, the result or the error of a
\* request it was sent.
LspAnswers == {LspNotification} \cup {LspResult(id) : id \in SentIds}
                  \cup {LspError(id) : id \in SentIds}

\* The server writes one message as one frame and the client reads it in one
\* chunk.
lspStdout(m) ==
    /\ lsp.file \in LspFiles
    /\ m \in LspAnswers
    /\ lsp' = lspOnData(lsp, LspFrame[m])
    /\ ret' = NoRet
    /\ UNCHANGED <<instanceVars, harnessVars>>

NextLsp ==
    \/ \E method \in LspMethods : MayRequest /\ sendRequest(method)
    \/ MayRequest /\ completionWithTimeout
    \/ completionTimeout
    \/ \E m \in LspMessages : lspStdout(m)

SpecLsp == InitLsp /\ [][NextLsp]_vars

\* setTimeout: the timer of timeoutPromise fires.
FairLsp == SpecLsp /\ WF_vars(completionTimeout)

\* dispose() of typescript-service.js up to its await: it returns at once
\* without a running server, and sends the shutdown request otherwise.
dispose ==
    /\ lsp.file = "typescript-service"
    /\ lsp.shutdownId = -1
    /\ IF lsp.server # "running"
       THEN lsp' = lsp /\ ret' = Ret("resolved", FALSE)
       ELSE lsp' = [requested(lsp) EXCEPT !.shutdownId = lsp.nextRequestId]
            /\ ret' = Ret("pending", TRUE)
    /\ UNCHANGED <<instanceVars, harnessVars>>

\* The promise of the shutdown request is settled and dispose goes on: the
\* exit notification or the catch block, then the finally block.
disposeResumes ==
    /\ lsp.file = "typescript-service"
    /\ lsp.shutdownId # -1
    /\ lsp.requests[lsp.shutdownId] # <<>>
    /\ lsp' = [lsp EXCEPT !.server = IF @ = "running" THEN "null" ELSE @,
                          !.shutdownId = -1]
    /\ ret' = Ret("resolved", lsp.requests[lsp.shutdownId][1].how = "resolve")
    /\ UNCHANGED <<instanceVars, harnessVars>>

\* shutdownServer(server) of lsp.js up to its await.
shutdownServer ==
    /\ lsp.file = "lsp"
    /\ lsp.shutdownId = -1
    /\ lsp' = [requested(lsp) EXCEPT !.shutdownId = lsp.nextRequestId]
    /\ ret' = Ret("pending", TRUE)
    /\ UNCHANGED <<instanceVars, harnessVars>>

\* The promise of the shutdown request is settled and shutdownServer goes on:
\* the exit notification and process.kill(), or the catch block.
shutdownResumes ==
    /\ lsp.file = "lsp"
    /\ lsp.shutdownId # -1
    /\ lsp.requests[lsp.shutdownId] # <<>>
    /\ lsp' = [lsp EXCEPT !.server = IF lsp.requests[lsp.shutdownId][1].how = "resolve"
                                     THEN "killed" ELSE @,
                          !.shutdownId = -1]
    /\ ret' = Ret("resolved", lsp.requests[lsp.shutdownId][1].how = "resolve")
    /\ UNCHANGED <<instanceVars, harnessVars>>

NextDispose ==
    \/ \E method \in LspMethods : MayRequest /\ sendRequest(method)
    \/ MayRequest /\ dispose
    \/ disposeResumes
    \/ MayRequest /\ shutdownServer
    \/ shutdownResumes
    \/ \E m \in LspMessages : lspStdout(m)

SpecDispose == InitLsp /\ [][NextDispose]_vars

\* A call whose await is over goes on running; nothing makes the server answer.
FairDispose == SpecDispose /\ WF_vars(disposeResumes) /\ WF_vars(shutdownResumes)

\* Header blocks without a usable length: no Content-Length field, one
\* whose value is no number.
MalformedHeaders == {"Content-Type: x" \o HeaderDelimiter,
                     ContentLengthPrefix \o "abc" \o HeaderDelimiter}

\* The streams fed to the language-server clients: frames, with or without a
\* malformed header block in front.
LspStreams ==
    {h \o FrameStream(bs) : h \in {""} \cup MalformedHeaders,
                            bs \in BodySeqs(MaxFrames) \ {<<>>}}

InitLspDecoder ==
    /\ impl = "server"
    /\ tsserverProcess = 0
    /\ seqNumber = 0
    /\ pendingCommands = EmptyMap
    /\ buffer = ""
    /\ expectedLength = 0
    /\ startupTimers = {}
    /\ callTimers = {}
    /\ calls = [p \in Promises |-> <<>>]
    /\ children = [c \in ChildIds |-> NoChild]
    /\ nInit = 0
    /\ ret = NoRet
    /\ stream \in LspStreams
    /\ rest = stream
    /\ out = <<>>
    /\ lsp \in {StartedLsp(file) : file \in LspFiles}

\* The 'data' handler gets the next k characters of the stream; out is every
\* message handed over so far.
lspFeed(k) ==
    /\ k \in 1..Len(rest)
    /\ lsp' = lspOnData(lsp, SubSeq(rest, 1, k))
    /\ out' = out \o lsp'.handed
    /\ rest' = SubSeq(rest, k + 1, Len(rest))
    /\ ret' = NoRet
    /\ UNCHANGED <<instanceVars, stream>>

NextLspDecoder == \E k \in 1..MaxChunk : lspFeed(k)

SpecLspDecoder == InitLspDecoder /\ [][NextLspDecoder]_vars

-----------------------------------------------------------------------------
(* The claims. *)

\* What one onData call dispatches when it gets the whole stream at once.
WholeDelivery(s) ==
    cutFrames([buffer |-> s, expectedLength |-> 0, messages |-> <<>>]).messages

\* The stream of the harness delivered at once yields its frame bodies: every
\* stream of the harness is a valid one.
HarnessStreamsValid ==
    \E bs \in BodySeqs(MaxFrames) : stream = FrameStream(bs) /\ WholeDelivery(stream) = bs

\* C1: once every chunk of a valid stream has been fed to onData, whatever the
\* places the stream was cut at, processMessage has been handed the same
\* sequence of frame bodies as when the whole stream arrives in one onData call.
C1_ChunkingYieldsSameBodies == rest = "" => out = WholeDelivery(stream)

\* The calls that wait for a reply: registered in the Map, promise not settled.
Waiting == {n \in SeqIds : n \in DOMAIN pendingCommands /\ ~Settled(CallPromise(n))}

\* The values the promise of call n was resolved with, one per resolve call.
ResolvedWith(n) ==
    {calls[CallPromise(n)][i].with : i \in {j \in DOMAIN calls[CallPromise(n)] :
                                              calls[CallPromise(n)][j].how = "resolve"}}

\* C2: the entry of seq n holds the callbacks of the call that was given n, and
\* the promise of that call is resolved only with a response whose request_seq
\* is n, in whatever order the replies arrive.
C2_ReplyOnlyToItsCall ==
    \A n \in SeqIds :
        /\ n \in DOMAIN pendingCommands => pendingCommands[n] = CallPromise(n)
        /\ \A v \in ResolvedWith(n) : v = Response(n, TRUE)

\* Call 2 has been resolved by its reply while the earlier call 1 still waits.
C2_RepliedOutOfOrder ==
    /\ 1 \in Waiting
    /\ calls[CallPromise(2)] = <<Resolved(Response(2, TRUE))>>

\* The promise of call n was rejected by its timer and by nothing else.
TimedOut(n) == calls[CallPromise(n)] = <<Rejected(ErrResponseTimeout)>>

\* C3: a call whose timer fires while it waits is rejected with the timeout
\* error and its entry removed; a reply that names it afterwards changes
\* neither the Map nor any promise, so the call is never resolved.
C3_TimeoutRejectsAndForgets ==
    /\ [](\A n \in SeqIds :
            (\E i \in DOMAIN calls[CallPromise(n)] :
                calls[CallPromise(n)][i] = Rejected(ErrResponseTimeout))
            => TimedOut(n) /\ n \notin DOMAIN pendingCommands)
    /\ [][\A n \in SeqIds :
            responseTimeout(n) /\ n \in Waiting
            => TimedOut(n)' /\ n \notin DOMAIN pendingCommands']_vars
    /\ [][\A n \in SeqIds : \A c \in ChildIds :
            stdoutData(c, Response(n, TRUE)) /\ TimedOut(n)
            => UNCHANGED <<pendingCommands, calls>>]_vars

\* Call 1 has timed out and the child it was written to can still answer it.
C3_TimedOutBeforeReply ==
    /\ TimedOut(1)
    /\ \E c \in ChildIds : Alive(c) /\ Response(1, TRUE) \in ChildMessages(c)

\* The promise of call n has been rejected.
RejectedCall(n) == Settled(CallPromise(n)) /\ Outcome(CallPromise(n)).how = "reject"

\* C4: killTSServer on a client with a child rejects every call that waits and
\* removes its entry.
C4_KillRejectsWaiting ==
    [][killTSServer /\ tsserverProcess # 0
       => \A n \in Waiting : RejectedCall(n)' /\ n \notin DOMAIN pendingCommands']_vars

\* C5: when the child of the client exits on its own, every call that waits is
\* rejected at that moment.
C5_CloseRejectsWaiting ==
    [][\A c \in ChildIds :
         childClose(c) /\ c = tsserverProcess /\ children[c].status = "running"
         => \A n \in Waiting : RejectedCall(n)']_vars

\* The names spec.md lists as answered at once, per file.
ListedAtOnce(file) ==
    {"open", "geterr", "geterrForProject", "saveto"}
        \cup (IF file = "startTsserver" THEN {"reloadProjects"} ELSE {})

C7_InitSettles ==
    /\ [](\A k \in ChildIds :
            Settled(InitPromise(k))
            => Outcome(InitPromise(k)) \in {Resolved(NoValue), Rejected(ErrStartupTimeout)})
    /\ [][\A c \in ChildIds :
            stdoutData(c, ReadyEvent) /\ CONNECT_MESSAGE_KEY \in DOMAIN pendingCommands
               /\ ~Settled(pendingCommands[CONNECT_MESSAGE_KEY])
            => calls'[pendingCommands[CONNECT_MESSAGE_KEY]] = <<Resolved(NoValue)>>]_vars
    /\ [][\A k \in ChildIds :
            startupTimeout(k) /\ ~Settled(InitPromise(k))
            => calls'[InitPromise(k)] = <<Rejected(ErrStartupTimeout)>>]_vars
    /\ \A k \in ChildIds : (nInit >= k) ~> Settled(InitPromise(k))

\* initTSServer has been resolved by the event and its startup timer has
\* fired afterwards.
C7_ReadyThenTimerFired ==
    /\ calls[InitPromise(1)] = <<Resolved(NoValue), Rejected(ErrStartupTimeout)>>

\* C8: the seq values given out are 1, 2, 3, ... in the order of the calls, one
\* more each time, through kill, exit and a new initTSServer; a new seq is
\* never a key of the Map already, and the entry of a seq is that of one call.
C8_SeqFreshAndIncreasing ==
    /\ [](\A n \in SeqIds :
            /\ n \in DOMAIN pendingCommands => n <= seqNumber /\ pendingCommands[n] = CallPromise(n)
            /\ n > seqNumber => calls[CallPromise(n)] = <<>>)
    /\ [][\/ seqNumber' = seqNumber
          \/ /\ seqNumber' = seqNumber + 1
             /\ seqNumber' \notin DOMAIN pendingCommands
             /\ seqNumber' \in DOMAIN pendingCommands'
             /\ \E command \in Commands : sendCommand(command)]_vars

\* Call 1 went to the first child, which has been killed, call 2 to the
\* second, and both wait.
C8_SeqGoesOnAfterRestart ==
    /\ {1, 2} \subseteq Waiting
    /\ nInit = 2 /\ tsserverProcess = 2
    /\ children[1].status = "signalled" /\ 1 \in children[1].received
    /\ 2 \in children[2].received

\* C9: sendCommand with a command that waits for its reply, on a client whose
\* child has a stdin that is not writable, writes nothing, starts no timer and
\* returns a promise already rejected with 'tsserver stdin not writable'.
C9_NotWritableRejectsAtOnce ==
    [][sendCommand("quickinfo") /\ tsserverProcess # 0 /\ ~children[tsserverProcess].writable
       => /\ ret' = Ret(ErrNotWritable, FALSE)
          /\ calls'[CallPromise(seqNumber')] = <<Rejected(ErrNotWritable)>>
          /\ UNCHANGED <<children, callTimers>>]_vars

\* The last sendCommand found stdin not writable; an earlier call was written.
C9_SentToClosedStdin ==
    /\ ret = Ret(ErrNotWritable, FALSE)
    /\ seqNumber = 2 /\ 1 \in Waiting

\* C10: sendCommand on a client without a child, whatever the command, fails
\* with 'tsserver is not initialized', writes nothing, takes no seq and adds no
\* entry.
C10_NoChildNotInitialized ==
    [][\A command \in Commands :
         sendCommand(command) /\ tsserverProcess = 0
         => /\ ret' = Ret(ErrNotInitialized, FALSE)
            /\ UNCHANGED <<seqNumber, pendingCommands, children>>]_vars

\* A decoded message that is neither the readiness event nor a reply whose
\* request_seq is a key of the Map.
Unsolicited(m) ==
    /\ m # ReadyEvent
    /\ ~("request_seq" \in DOMAIN m /\ m.request_seq \in DOMAIN pendingCommands)

\* C11: a decoded message that is neither a matched reply nor the readiness
\* event reaches the caller: one of the callbacks the caller was handed is
\* called with it, the promises being all the instance hands out.
C11_UnsolicitedReachesCaller ==
    [][\A c \in ChildIds : \A m \in Messages :
         stdoutData(c, m) /\ Unsolicited(m) => calls' # calls]_vars

\* C12: the promise of a call is never resolved with a reply whose success
\* flag is false.
C12_FailureNeverResolves ==
    \A n \in SeqIds : \A v \in ResolvedWith(n) : v.success

\* The ways the promise of call n may be settled.
CallOutcomes(n) ==
    {Resolved(Response(n, ok)) : ok \in BOOLEAN}
        \cup {Rejected(ErrResponseTimeout), Rejected(ErrNotWritable)}

\* C13: the promise of every call that was given a seq is settled in the end,
\* by a reply naming its seq, by its own timer or by the not-writable
\* rejection, and a call made without a child is rejected before sendCommand
\* returns.
C13_CallsSettle ==
    /\ [](\A n \in SeqIds :
            Settled(CallPromise(n)) => Outcome(CallPromise(n)) \in CallOutcomes(n))
    /\ [][sendCommand("quickinfo") /\ tsserverProcess = 0
          => ret' = Ret(ErrNotInitialized, FALSE)]_vars
    /\ \A n \in SeqIds : (seqNumber >= n) ~> Settled(CallPromise(n))

\* Three calls, settled in three ways: by the timer, by a reply that refuses
\* the request, by the not-writable rejection.
C13_SettledEachWay ==
    /\ TimedOut(1)
    /\ calls[CallPromise(2)] = <<Resolved(Response(2, FALSE))>>
    /\ calls[CallPromise(3)] = <<Rejected(ErrNotWritable)>>

\* What onData leaves of the client state when it reads rawData.
AfterOnData(rawData) ==
    <<onData(buffer, expectedLength, pendingCommands, calls, rawData).buffer,
      onData(buffer, expectedLength, pendingCommands, calls, rawData).expectedLength,
      onData(buffer, expectedLength, pendingCommands, calls, rawData).pendingCommands,
      onData(buffer, expectedLength, pendingCommands, calls, rawData).calls>>

\* C14: a frame whose body is no JSON text is handed to processMessage, which
\* changes nothing; the frame behind it in the same chunk is handed over next
\* and has the effect it has when it arrives alone, and a chunk that ends with
\* the garbled frame leaves the client as it was, ready for the next chunk.
C14_GarbledBodyDropped ==
    /\ [][\A c \in ChildIds : \A m \in Messages :
            out = <<>> /\ out' # <<>> /\ garbled(c, MessageFrame[m])
            => /\ out' = <<GarbledBody, MessageText[m]>>
               /\ <<buffer, expectedLength, pendingCommands, calls>>'
                      = AfterOnData(MessageFrame[m])]_vars
    /\ [][\A c \in ChildIds :
            out = <<>> /\ out' # <<>> /\ garbled(c, "")
            => /\ out' = <<GarbledBody>>
               /\ UNCHANGED <<buffer, expectedLength, pendingCommands, calls>>]_vars

\* The reply to call 1 came behind a garbled frame in one chunk and resolved
\* the call.
C14_ReplyBehindGarbled ==
    /\ out = <<GarbledBody, MessageText[Response(1, TRUE)]>>
    /\ calls[CallPromise(1)] = <<Resolved(Response(1, TRUE))>>
    /\ buffer = ""

\* C15: a reply whose request_seq is no key of the Map, whatever its success
\* flag, leaves the Map, every promise and the decoder as they were.
C15_UnknownReplyDiscarded ==
    [][\A c \in ChildIds : \A n \in SeqIds :
         /\ n \notin DOMAIN pendingCommands
         /\ stdoutData(c, Response(n, TRUE)) \/ failureReply(c, n)
         => UNCHANGED <<pendingCommands, calls, buffer, expectedLength>>]_vars

\* Call 1 has been resolved by its reply, the child that answered it can
\* answer it again, and call 2 waits.
C15_DuplicateWhileWaiting ==
    /\ calls[CallPromise(1)] = <<Resolved(Response(1, TRUE))>>
    /\ 1 \notin DOMAIN pendingCommands
    /\ 2 \in Waiting
    /\ \E c \in ChildIds : Alive(c) /\ {1, 2} \subseteq children[c].received

\* C16: at most one of the children an instance has spawned is alive.
C16_OneChildAlive == Cardinality({c \in ChildIds : Alive(c)}) <= 1

\* C17: sendCommand with a command of the list, on a client whose child has a
\* stdin that is not writable, does not call stdin.write and does not return a
\* resolved promise.
C17_AtOnceChecksWritable ==
    [][\A command \in ListedAtOnce(impl) :
         sendCommand(command) /\ tsserverProcess # 0 /\ ~children[tsserverProcess].writable
         => ~ret'.wrote /\ ret'.result # "resolved"]_vars

\* C19: when the buffer with the chunk appended holds no "\r\n\r\n", onData
\* hands nothing to processMessage and leaves in the buffer the old buffer
\* followed by the chunk.
C19_NoDelimiterWaits ==
    [][\A k \in 1..MaxChunk :
         /\ Len(rest) - Len(rest') = k
         /\ feed(k)
         /\ IndexOf(buffer \o SubSeq(rest, 1, k), HeaderDelimiter) = -1
         => out' = out /\ buffer' = buffer \o SubSeq(rest, 1, k)]_vars

\* C18: the promise of every request sent by sendRequest, in lsp.js and in
\* typescript-service.js, is settled in the end, whether or not the server
\* answers.
C18_RequestsSettle ==
    \A id \in RequestIds : (id \in SentIds) ~> (lsp.requests[id] # <<>>)

\* C20: a chunk that arrives on the empty buffer of the client of lsp.js and
\* holds a header block without a usable length followed by whole frames has
\* the header consumed and, in the same 'data' event, every one of the frames
\* handed over.
C20_MalformedHeaderSkipped ==
    [][\A k \in 1..MaxChunk : \A h \in MalformedHeaders : \A bs \in BodySeqs(MaxFrames) :
         /\ Len(rest) - Len(rest') = k
         /\ lsp.file = "lsp" /\ lsp.buffer = "" /\ lsp.contentLength = -1
         /\ SubSeq(rest, 1, k) = h \o FrameStream(bs)
         /\ lspFeed(k)
         => out' = out \o bs /\ lsp'.buffer = ""]_vars

\* C21: a chunk that arrives on an empty buffer and holds whole frames followed
\* by the beginning of a further frame has exactly the bodies of the whole
\* frames handed to processMessage, in order, by that onData call, and the
\* beginning of the further frame is what the buffer holds afterwards.
C21_WholeFramesThenRemainder ==
    [][\A k \in 1..MaxChunk :
         /\ Len(rest) - Len(rest') = k
         /\ buffer = "" /\ expectedLength = 0
         /\ feed(k)
         => \A bs \in BodySeqs(MaxFrames) \ {<<>>} : \A b \in HarnessBodies :
              \A j \in 1..(Len(Frame(b)) - 1) :
                 SubSeq(rest, 1, k) = FrameStream(bs) \o SubSeq(Frame(b), 1, j)
                 => out' = out \o bs /\ buffer' = SubSeq(Frame(b), 1, j)]_vars

\* C22: a call rejected because stdin is not writable has no entry in the Map
\* when sendCommand returns, and every entry of the Map but the sentinel's is
\* that of a call whose promise is not settled.
C22_EntriesAreUnsettled ==
    /\ ret.result = ErrNotWritable => seqNumber \notin DOMAIN pendingCommands
    /\ \A n \in SeqIds : n \in DOMAIN pendingCommands => ~Settled(CallPromise(n))

\* C23: the resolve callback of an initTSServer promise is called only by the
\* step that decodes the typingsInstallerPid event, whatever else the child
\* writes, a reply with request_seq -1 included; and the seq given to a call
\* is never the key of the sentinel.
C23_OnlyReadyEventResolvesInit ==
    /\ [](seqNumber # CONNECT_MESSAGE_KEY /\ (DOMAIN pendingCommands) \ {CONNECT_MESSAGE_KEY} \subseteq SeqIds)
    /\ [][\A k \in ChildIds :
            /\ calls'[InitPromise(k)] # calls[InitPromise(k)]
            /\ calls'[InitPromise(k)][Len(calls'[InitPromise(k)])].how = "resolve"
            => \E c \in ChildIds : stdoutData(c, ReadyEvent)]_vars

\* The sentinel of the k-th initTSServer has been put in the Map: it is there,
\* or the timer started with it is scheduled, or the promise it stands for has
\* had a callback called.
Registered(k) ==
    \/ CONNECT_MESSAGE_KEY \in DOMAIN pendingCommands
          /\ pendingCommands[CONNECT_MESSAGE_KEY] = InitPromise(k)
    \/ k \in startupTimers
    \/ Settled(InitPromise(k))

\* C24 as stated: the sentinel of an initTSServer call is registered before
\* its child is spawned, so a child that exists has its sentinel registered.
C24_SentinelBeforeSpawn ==
    \A k \in ChildIds : children[k].status # "none" => Registered(k)

\* C24: initTSServer spawns the child first and registers the sentinel next,
\* in one synchronous block: from the state between the two the only step is
\* the registration, so no message of the child, the typingsInstallerPid event
\* included, is processed before the sentinel of its initTSServer is there.
C24_NoEventBeforeSentinel ==
    /\ [](\A k \in ChildIds :
            children[k].status # "none" /\ ~Registered(k) => k = nInit /\ ret = InitSpawned)
    /\ [][ret = InitSpawned => registerSentinel]_vars
    /\ [][ret = InitSpawned => ~\E c \in ChildIds : stdoutData(c, ReadyEvent)]_vars

\* The second initTSServer has spawned its child and not yet registered its
\* sentinel, while the first child lives and could write its readiness event.
C24_SpawnedNotYetRegistered ==
    /\ ret = InitSpawned /\ nInit = 2
    /\ Alive(1) /\ children[2] = Spawned
    /\ ~Registered(2)

\* C25: when the startup timer of an initTSServer call fires before the
\* readiness event has resolved it, the call is rejected and the Map holds no
\* entry under the key of the sentinel afterwards.
C25_StartupTimeoutRemovesSentinel ==
    [][\A k \in ChildIds :
         startupTimeout(k) /\ ~Settled(InitPromise(k))
         => /\ calls'[InitPromise(k)] = <<Rejected(ErrStartupTimeout)>>
            /\ CONNECT_MESSAGE_KEY \notin DOMAIN pendingCommands']_vars

\* C26: every scheduled timer of a call is that of a seq still in the Map, a
\* reply that removes an entry leaves no timer of its seq scheduled, and the
\* startup timer of an initTSServer call that has been resolved is not
\* scheduled.
C26_TimersOnlyForEntries ==
    /\ [](callTimers \subseteq DOMAIN pendingCommands)
    /\ [](\A k \in ChildIds :
            Settled(InitPromise(k)) /\ Outcome(InitPromise(k)).how = "resolve"
            => k \notin startupTimers)
    /\ [][\A n \in SeqIds :
            n \in DOMAIN pendingCommands /\ n \notin DOMAIN pendingCommands'
            => n \notin callTimers']_vars

\* C27: killTSServer and exitServer leave the Map empty, the buffer empty and
\* expectedLength 0, so a later initTSServer starts from a clean decoder and
\* an empty Map but for its own sentinel.
C27_EndClearsProtocolState ==
    /\ [][killTSServer \/ exitServer
          => pendingCommands' = EmptyMap /\ buffer' = "" /\ expectedLength' = 0]_vars
    /\ [][initTSServer
          => (DOMAIN pendingCommands') = {CONNECT_MESSAGE_KEY} /\ buffer' = ""
             /\ expectedLength' = 0]_vars

\* C28: of the two callbacks of a promise the instance handed out, that of
\* initTSServer included, at most one is ever called, and at most once.
C28_OneCallbackOnce == \A p \in Promises : Len(calls[p]) <= 1

\* C29: after killTSServer no child the instance spawned is running without
\* having been sent the signal of kill(), whether or not exitServer was
\* called before and whether or not it could write its exit command.
C29_KillEndsLivingChild ==
    [][killTSServer => \A c \in ChildIds : children'[c].status # "running"]_vars

\* C30: a stream of frames whose Content-Length is the number of bytes of the
\* body, delivered whole on an empty buffer, yields the bodies of its frames,
\* also when a body holds a character of two bytes: onData of server.js hands
\* over exactly these bodies and leaves nothing, and so does the loop of
\* typescript-service.js on the same text.
C30_LengthCountsBytes ==
    [][/\ rest = stream /\ rest' = ""
       /\ buffer = "" /\ expectedLength = 0
       /\ feedBytes(Len(rest))
       => \A bs \in Utf8BodySeqs(MaxFrames) :
            stream = ByteStream(bs)
            => /\ out' = bs /\ buffer' = ""
               /\ tsCut([buffer |-> utf8Decode(stream), contentLength |-> -1,
                         messages |-> <<>>]).messages = bs]_vars

\* C31: a frame that declares Content-Length: 0 and arrives whole at the front
\* of an empty buffer yields one empty body, exactly its header is consumed,
\* and the frames behind it in the chunk are decoded after it.
C31_ZeroLengthFrame ==
    [][\A k \in 1..MaxChunk :
         /\ Len(rest) - Len(rest') = k
         /\ buffer = "" /\ expectedLength = 0
         /\ Substring(rest, 0, Len(Frame(""))) = Frame("")
         /\ feed(k)
         => \A bs \in BodySeqs(MaxFrames) :
              SubSeq(rest, 1, k) = Frame("") \o FrameStream(bs)
              => out' = out \o <<"">> \o bs /\ buffer' = "" /\ expectedLength' = 0]_vars

\* An empty frame and the frame of {} behind it have been decoded.
C31_EmptyThenObject ==
    /\ stream = Frame("") \o Frame(MessageText[EmptyObject])
    /\ rest = ""
    /\ out = <<"", MessageText[EmptyObject]>>
    /\ buffer = ""

\* The promise of the initTSServer call that spawned child k has been resolved.
Ready(k) == Settled(InitPromise(k)) /\ Outcome(InitPromise(k)).how = "resolve"

\* C32: sendCommand on a client whose child is spawned and whose initTSServer
\* promise is not yet resolved fails at once: nothing is written, no entry is
\* added to the Map, and the caller gets an error.
C32_NotReadyRejected ==
    [][\A command \in Commands :
         sendCommand(command) /\ tsserverProcess # 0 /\ ~Ready(tsserverProcess)
         => /\ ~ret'.wrote
            /\ ret'.result \notin {"pending", "resolved"}
            /\ UNCHANGED pendingCommands]_vars

\* The lines of a chunk that hold one whole JSON payload each.
PayloadLines(lines) ==
    SelectSeq(lines, LAMBDA l : StartsWith(TrimSpace(l), "{") /\ JSONParse(TrimSpace(l)).ok)

\* C33: the stdout handler of the line-oriented client lets no exception out,
\* and of the lines of a chunk it gives onData exactly those that start with
\* "{" and are one whole JSON payload, the ones behind a line that does not
\* parse included.
C33_BadLineDropped ==
    [][\A k \in 1..MaxChunk :
         Len(rest) - Len(rest') = k /\ lineFeed(k)
         => /\ ret' # ThrewSyntaxError
            /\ out' = out \o PayloadLines(Split(SubSeq(rest, 1, k), "\n"))]_vars

\* C34: whatever the places a stream of whole frames is cut at, the handler of
\* lsp.js has at every moment handed connection.onMessage the bodies of the
\* first frames of the stream, in order and each of its declared length, and
\* once the stream has been delivered all of them, with nothing left over.
C34_LspChunkingYieldsSameMessages ==
    \A bs \in BodySeqs(MaxFrames) :
        lsp.file = "lsp" /\ stream = FrameStream(bs)
        => /\ Len(out) <= Len(bs) /\ out = SubSeq(bs, 1, Len(out))
           /\ rest = "" => out = bs /\ lsp.buffer = "" /\ lsp.contentLength = -1

\* The first frame has been handed over, the header of the second has been
\* parsed and a part of its body waits for the rest.
C34_WaitingForBody ==
    /\ lsp.file = "lsp"
    /\ \E bs \in BodySeqs(MaxFrames) : stream = FrameStream(bs)
    /\ Len(out) = 1
    /\ lsp.contentLength > 0 /\ lsp.buffer # "" /\ rest # ""

\* C35: every iteration of the while loop of onData leaves the buffer
\* strictly shorter than it found it, whatever the buffer holds, and no step
\* of a running onData call makes the buffer longer; the length of the buffer
\* on entry therefore bounds the number of iterations of the call.
C35_LoopTerminates ==
    [][/\ ret = InBody => Len(buffer') < Len(buffer)
       /\ ret # NoRet => Len(buffer') <= Len(buffer)]_vars

\* The loop is in its body on a buffer that holds no delimiter.
C35_IterationWithoutDelimiter ==
    /\ ret = InBody
    /\ IndexOf(buffer, HeaderDelimiter) = -1

\* C36: a dispose() call on a running server is followed, in every execution,
\* by the kill of the child and this.server = null.
C36_DisposeKills ==
    (lsp.file = "typescript-service" /\ lsp.shutdownId # -1)
        ~> (lsp.file = "typescript-service" /\ lsp.server = "null")

\* C37: sendChange and closeFile return undefined without throwing, leave
\* pendingCommands, seqNumber, the timers and every promise as they were, and
\* write exactly when there is a process handle whose stdin is writable.
C37_NotificationsLeaveStateAlone ==
    [][sendChange \/ closeFile
       => /\ UNCHANGED <<pendingCommands, seqNumber, callTimers, startupTimers, calls>>
          /\ ret'.result = "returned"
          /\ ret'.wrote <=> (tsserverProcess # 0 /\ children[tsserverProcess].writable)]_vars

\* A notification has returned without writing, on a child whose stdin is
\* closed, while call 1 waits.
C37_SilentOnClosedStdin ==
    /\ ret = Ret("returned", FALSE)
    /\ tsserverProcess # 0 /\ ~children[tsserverProcess].writable
    /\ 1 \in Waiting

====
